---- MODULE Spec2Model ----
(***************************************************************************)
(* postcss-remove-duplicate-values: the Once(root) handler of the plugin   *)
(* (index.js) as a state machine over a PostCSS node tree.                 *)
(*                                                                         *)
(* Strings are sequences of one-character strings, so that startsWith,     *)
(* indexOf and trim are computed and not assumed.                          *)
(* Positions in a child sequence are 0-based as in the source; nodes[c] is *)
(* a TLA+ sequence, so the child at index i is nodes[c][i + 1].            *)
(***************************************************************************)
EXTENDS Integers, Sequences, FiniteSets, TLC

\* ---------------------------------------------------------------- bounds
MaxNodes == 4       \* nodes below the root in an input tree
MaxRuns  == 2       \* how many times the transform is run on one tree

\* ------------------------------------------------------------- alphabets
Root   == 0
Absent == 0 - 1     \* node.parent === undefined

PropNames == { <<"c">>, <<"-", "o", "-", "c">> }
Values    == { <<>>, <<"r">> }
Selectors == { <<".", "x">>, <<".", "y">> }

NoSelector      == [type |-> "undefined", text |-> <<>>]
StringSel(s)    == [type |-> "string", text |-> s]
\* a regular expression whose source is a literal text, with its g and y flags
RegExpSel(s, g, y) == [type |-> "regexp", text |-> s, global |-> g, sticky |-> y]
\* a predicate: the selector texts it returns true for, those it throws on
FunctionSel(yes, bad) == [type |-> "function", accepts |-> yes, throws |-> bad]
\* a selector option of a type the plugin does not support, such as 42
NumberSel       == [type |-> "number", text |-> <<>>]

\* the root argument of Once when there is no tree to walk
Null == 0 - 2

Kinds == {"rule", "decl", "comment", "atrule"}

\* ----------------------------------------------------------------- state
VARIABLES
  node,       \* node id -> its fields (type, selector, prop, value, important)
  input,      \* container id -> child sequence of the tree as parsed
  nodes,      \* container id -> current child sequence (node.nodes)
  parent,     \* node id -> current parent (node.parent), Absent once removed
  options,    \* the plugin options: selector, preserveEmpty
  run,        \* number of the current run of Once(root)
  pc,         \* position in Once: "rules", "decls", "done"
  ruleIter,   \* root.walkRules: stack of each() iterators, <<container, index>>
  declIter,   \* rule.walkDecls: stack of each() iterators
  rule,       \* the rule the walkRules callback is running on
  ruleDeclarations,           \* Map: prop -> {value, important, declaration}
  fallbackRuleDeclarations,   \* Map: prop -> {important, declaration}
  root,       \* the argument of Once: Root, or Null when there is no tree
  lastIndex,  \* selector.lastIndex when the selector option is a RegExp
  raised,     \* the error Once has thrown to its caller, "none" if none
  visits,     \* history: rule -> what each call of the walkRules callback did
  single      \* history: the single-mapping resolver of the specification

vars == << node, input, nodes, parent, options, run, pc, ruleIter, declIter,
           rule, ruleDeclarations, fallbackRuleDeclarations,
           root, lastIndex, raised, visits, single >>

\* -------------------------------------------------------- string helpers
\* String.prototype.startsWith
StartsWith(s, p) == Len(s) >= Len(p) /\ SubSeq(s, 1, Len(p)) = p

\* String.prototype.indexOf(p) !== -1
Contains(s, p) ==
  \E i \in 0..(Len(s) - Len(p)) : SubSeq(s, i + 1, i + Len(p)) = p

\* String.prototype.trim
RECURSIVE TrimLeft(_)
TrimLeft(s) == IF s # <<>> /\ Head(s) = " " THEN TrimLeft(Tail(s)) ELSE s

RECURSIVE TrimRight(_)
TrimRight(s) ==
  IF s # <<>> /\ s[Len(s)] = " " THEN TrimRight(SubSeq(s, 1, Len(s) - 1)) ELSE s

Trim(s) == TrimRight(TrimLeft(s))

\* ------------------------------------------------------ index.js helpers
\* the test `if (selector)` of the selector gate: JavaScript truthiness
Truthy(selector) ==
  CASE selector.type = "undefined" -> FALSE
    [] selector.type = "string"    -> selector.text # <<>>
    [] OTHER                       -> TRUE

\* RegExp.prototype.test for a literal source: the result and the lastIndex
\* it leaves.  Without the g and y flags lastIndex is neither read nor set;
\* with y the match must start at lastIndex, with g at or after it; a failed
\* search resets lastIndex to 0.
FirstMatchFrom(s, p, from) ==
  LET hits == {i \in from..(Len(s) - Len(p)) : SubSeq(s, i + 1, i + Len(p)) = p}
  IN IF hits = {} THEN 0 - 1
     ELSE CHOOSE i \in hits : \A j \in hits : i <= j

RegExpTest(re, li, s) ==
  IF ~re.global /\ ~re.sticky
  THEN [result |-> Contains(s, re.text), lastIndex |-> li]
  ELSE LET at == IF li > Len(s) THEN 0 - 1
                 ELSE IF re.sticky
                      THEN IF /\ li + Len(re.text) <= Len(s)
                              /\ SubSeq(s, li + 1, li + Len(re.text)) = re.text
                           THEN li ELSE 0 - 1
                      ELSE FirstMatchFrom(s, re.text, li)
       IN IF at < 0 THEN [result |-> FALSE, lastIndex |-> 0]
          ELSE [result |-> TRUE, lastIndex |-> at + Len(re.text)]

\* string equality in place of indexOf
matchSelectorExact(selector, walkSelector) ==
  CASE selector.type = "string"   -> walkSelector = selector.text
    [] selector.type = "regexp"   ->
         RegExpTest(selector, lastIndex, walkSelector).result
    [] selector.type = "function" -> walkSelector \in selector.accepts
    [] OTHER                      -> FALSE

matchSelector(selector, walkSelector) ==
  CASE selector.type = "string"   -> Contains(walkSelector, selector.text)
    [] selector.type = "regexp"   ->
         RegExpTest(selector, lastIndex, walkSelector).result
    [] selector.type = "function" -> walkSelector \in selector.accepts
    [] OTHER                      -> FALSE

\* the predicate throws for this selector text
SelectorThrows(selector, walkSelector) ==
  selector.type = "function" /\ walkSelector \in selector.throws

\* any leading dash taken for a vendor prefix
isValidFallbackValueAnyDash(property) == StartsWith(property, <<"-">>)

isValidFallbackValue(property) ==
  \/ StartsWith(property, <<"-", "w", "e", "b", "k", "i", "t", "-">>)
  \/ StartsWith(property, <<"-", "m", "o", "z", "-">>)
  \/ StartsWith(property, <<"-", "m", "s", "-">>)
  \/ StartsWith(property, <<"-", "o", "-">>)

\* emptiness that counts comments as content
isEmptyNoChildren(r) == Len(nodes[r]) = 0

isEmpty(r) ==
  \/ Len(nodes[r]) = 0
  \/ {k \in 1..Len(nodes[r]) : node[nodes[r][k]].type # "comment"} = {}

\* the validation without the test of the value
InvalidDeclarationNoValueTest(d) == node[d].prop = <<>>

\* the declaration validation: !declaration.prop || !declaration.value
InvalidDeclaration(d) == node[d].prop = <<>> \/ node[d].value = <<>>

\* the key with a vendor prefix stripped
RECURSIVE DropThroughDash(_)
DropThroughDash(s) ==
  IF s = <<>> THEN <<>>
  ELSE IF Head(s) = "-" THEN Tail(s) ELSE DropThroughDash(Tail(s))

DedupKeyUnprefixed(d) ==
  IF isValidFallbackValue(node[d].prop)
  THEN DropThroughDash(Tail(node[d].prop)) ELSE node[d].prop

\* const key = declaration.prop
DedupKey(d) == node[d].prop

\* ------------------------------------------------------------ Map objects
EmptyMap == <<>>
MapHas(m, k) == k \in DOMAIN m
MapSet(m, k, v) == [x \in (DOMAIN m) \cup {k} |-> IF x = k THEN v ELSE m[x]]

\* ------------------------------------------- PostCSS containers, iterators
IsContainer(x) == x = Root \/ node[x].type \in {"rule", "atrule"}

Top(stack) == stack[Len(stack)]
Pop(stack) == SubSeq(stack, 1, Len(stack) - 1)
Push(stack, c) == Append(stack, <<c, 0>>)

\* each(): this.indexes[iterator] += 1 on the innermost iterator
Advance(stack) ==
  [stack EXCEPT ![Len(stack)] = <<@[1], @[2] + 1>>]

\* the each() that called the finished one staying on the same child
ReturnNoAdvance(stack) == IF Len(stack) > 1 THEN Pop(stack) ELSE <<>>

\* an each() has run out of children: the iterator is dropped and the each()
\* that called it moves on to its next child
Return(stack) == IF Len(stack) > 1 THEN Advance(Pop(stack)) ELSE <<>>

\* container.index(child), 0-based
IndexOf(c, child) == (CHOOSE k \in 1..Len(nodes[c]) : nodes[c][k] = child) - 1

\* removal by moving the last child into the freed position
SpliceSwap(seq, p) ==
  IF p + 1 = Len(seq) THEN SubSeq(seq, 1, p)
  ELSE [SubSeq(seq, 1, Len(seq) - 1) EXCEPT ![p + 1] = seq[Len(seq)]]

\* nodes.splice(p, 1)
Splice(seq, p) == SubSeq(seq, 1, p) \o SubSeq(seq, p + 2, Len(seq))

\* only the iterators after the removed position stepping back
AdjustIndexesAfter(stack, c, p) ==
  [k \in DOMAIN stack |->
     IF stack[k][1] = c /\ stack[k][2] > p
     THEN <<c, stack[k][2] - 1>> ELSE stack[k]]

\* removeChild: every live iterator of the container at or after the removed
\* position steps back by one
AdjustIndexes(stack, c, p) ==
  [k \in DOMAIN stack |->
     IF stack[k][1] = c /\ stack[k][2] >= p
     THEN <<c, stack[k][2] - 1>> ELSE stack[k]]

\* node.remove(): nothing happens to a node that has no parent
NodesAfterRemove(x) ==
  IF parent[x] = Absent THEN nodes
  ELSE [nodes EXCEPT ![parent[x]] = Splice(@, IndexOf(parent[x], x))]

ParentAfterRemove(x) == [parent EXCEPT ![x] = Absent]

\* removeChild leaving the live iterators as they are
IterNotAdjusted(stack, x) == stack

IterAfterRemove(stack, x) ==
  IF parent[x] = Absent THEN stack
  ELSE AdjustIndexes(stack, parent[x], IndexOf(parent[x], x))

\* ----------------------------------------------------- root.walkRules(...)
RuleFrame == Top(ruleIter)
RuleChild == nodes[RuleFrame[1]][RuleFrame[2] + 1]
AtRuleChild ==
  /\ pc = "rules"
  /\ root = Root
  /\ ruleIter # <<>>
  /\ RuleFrame[2] < Len(nodes[RuleFrame[1]])

UnchangedTree == UNCHANGED << node, input, nodes, parent, options, run >>
UnchangedPass ==
  UNCHANGED << declIter, rule, ruleDeclarations, fallbackRuleDeclarations >>
UnchangedGate == UNCHANGED << root, lastIndex, raised, visits >>

\* the callback has been called on rule r and did what
Visited(r, what) == [visits EXCEPT ![r] = Append(@, what)]

\* the selector gate of the callback on rule r
GateThrows(r) ==
  Truthy(options.selector) /\ SelectorThrows(options.selector, node[r].selector)

LastIndexAfterGate(r) ==
  IF Truthy(options.selector) /\ options.selector.type = "regexp"
  THEN RegExpTest(options.selector, lastIndex, node[r].selector).lastIndex
  ELSE lastIndex

\* a declaration or a comment met by walkRules: not a rule, nothing to walk
WalkRulesLeaf ==
  /\ AtRuleChild
  /\ node[RuleChild].type \in {"decl", "comment"}
  /\ ruleIter' = Advance(ruleIter)
  /\ pc' = pc
  /\ UnchangedTree /\ UnchangedPass /\ UnchangedGate
  /\ single' = single

\* walkRules stepping over an at-rule without walking its children
WalkRulesAtRuleNotWalked ==
  /\ AtRuleChild
  /\ node[RuleChild].type = "atrule"
  /\ ruleIter' = Advance(ruleIter)
  /\ pc' = pc
  /\ UnchangedTree /\ UnchangedPass /\ UnchangedGate
  /\ single' = single

\* an at-rule met by walkRules: not a rule, but its children are walked
WalkRulesAtRule ==
  /\ AtRuleChild
  /\ node[RuleChild].type = "atrule"
  /\ ruleIter' = Push(ruleIter, RuleChild)
  /\ pc' = pc
  /\ UnchangedTree /\ UnchangedPass /\ UnchangedGate
  /\ single' = single

\* the children of a container are exhausted
WalkRulesReturn ==
  /\ pc = "rules"
  /\ root = Root
  /\ ruleIter # <<>>
  /\ RuleFrame[2] >= Len(nodes[RuleFrame[1]])
  /\ ruleIter' = Return(ruleIter)
  /\ pc' = IF Len(ruleIter) > 1 THEN "rules" ELSE "done"
  /\ UnchangedTree /\ UnchangedPass /\ UnchangedGate
  /\ single' = single

\* the selector gate: the callback returns, walkRules then walks the rule
SkipRule ==
  /\ AtRuleChild
  /\ node[RuleChild].type = "rule"
  /\ Truthy(options.selector)
  /\ ~GateThrows(RuleChild)
  /\ ~matchSelector(options.selector, node[RuleChild].selector)
  /\ ruleIter' = Push(ruleIter, RuleChild)
  /\ pc' = pc
  /\ lastIndex' = LastIndexAfterGate(RuleChild)
  /\ visits' = Visited(RuleChild, "skipped")
  /\ UNCHANGED << root, raised, single >>
  /\ UnchangedTree /\ UnchangedPass

\* the error of the selector predicate leaving the callback and walkRules
RuleFaultEscapes ==
  /\ AtRuleChild
  /\ node[RuleChild].type = "rule"
  /\ GateThrows(RuleChild)
  /\ pc' = "error"
  /\ raised' = "Error"
  /\ visits' = Visited(RuleChild, "fault")
  /\ UNCHANGED << root, lastIndex, single, ruleIter >>
  /\ UnchangedTree /\ UnchangedPass

\* the selector predicate throws: the catch around the callback body swallows
\* the error, the callback returns and walkRules walks the rule
RuleFault ==
  /\ AtRuleChild
  /\ node[RuleChild].type = "rule"
  /\ GateThrows(RuleChild)
  /\ ruleIter' = Push(ruleIter, RuleChild)
  /\ pc' = pc
  /\ visits' = Visited(RuleChild, "fault")
  /\ UNCHANGED << root, lastIndex, raised, single >>
  /\ UnchangedTree /\ UnchangedPass

Eligible(r) ==
  Truthy(options.selector) => matchSelector(options.selector, node[r].selector)

\* the option ignored
AlwaysRemoveEmpty == TRUE

\* preserveEmpty !== true
MustRemoveEmpty == options.preserveEmpty # TRUE

\* the empty-rule branch with rule.remove(); walkRules still walks the
\* children of the rule it has just handed to the callback
RemoveEmptyRule ==
  /\ AtRuleChild
  /\ node[RuleChild].type = "rule"
  /\ Eligible(RuleChild)
  /\ ~GateThrows(RuleChild)
  /\ isEmpty(RuleChild)
  /\ MustRemoveEmpty
  /\ nodes' = NodesAfterRemove(RuleChild)
  /\ parent' = ParentAfterRemove(RuleChild)
  /\ ruleIter' = Push(IterAfterRemove(ruleIter, RuleChild), RuleChild)
  /\ pc' = pc
  /\ lastIndex' = LastIndexAfterGate(RuleChild)
  /\ visits' = Visited(RuleChild, "removed")
  /\ UNCHANGED << node, input, options, run, root, raised, single >>
  /\ UnchangedPass

\* the empty-rule branch with preserveEmpty: true
KeepEmptyRule ==
  /\ AtRuleChild
  /\ node[RuleChild].type = "rule"
  /\ Eligible(RuleChild)
  /\ ~GateThrows(RuleChild)
  /\ isEmpty(RuleChild)
  /\ ~MustRemoveEmpty
  /\ ruleIter' = Push(ruleIter, RuleChild)
  /\ pc' = pc
  /\ lastIndex' = LastIndexAfterGate(RuleChild)
  /\ visits' = Visited(RuleChild, "kept")
  /\ UNCHANGED << root, raised, single >>
  /\ UnchangedTree /\ UnchangedPass

\* the else branch: two new Maps, then rule.walkDecls(...)
BeginResolve ==
  /\ AtRuleChild
  /\ node[RuleChild].type = "rule"
  /\ Eligible(RuleChild)
  /\ ~GateThrows(RuleChild)
  /\ ~isEmpty(RuleChild)
  /\ rule' = RuleChild
  /\ ruleDeclarations' = EmptyMap
  /\ fallbackRuleDeclarations' = EmptyMap
  /\ declIter' = Push(<<>>, RuleChild)
  /\ pc' = "decls"
  /\ ruleIter' = ruleIter
  /\ lastIndex' = LastIndexAfterGate(RuleChild)
  /\ visits' = Visited(RuleChild, "resolved")
  /\ single' = [single EXCEPT !.candidates = EmptyMap]
  /\ UNCHANGED << root, raised >>
  /\ UnchangedTree

\* ----------------------------------------------------- rule.walkDecls(...)
DeclFrame == Top(declIter)
DeclChild == nodes[DeclFrame[1]][DeclFrame[2] + 1]
AtDeclChild ==
  /\ pc = "decls"
  /\ DeclFrame[2] < Len(nodes[DeclFrame[1]])

\* a comment met by walkDecls
WalkDeclsLeaf ==
  /\ AtDeclChild
  /\ node[DeclChild].type = "comment"
  /\ declIter' = Advance(declIter)
  /\ UNCHANGED << pc, ruleIter, rule, ruleDeclarations, fallbackRuleDeclarations >>
  /\ UnchangedTree /\ UnchangedGate
  /\ single' = single

\* a rule or an at-rule inside the rule: walkDecls walks its children too
WalkDeclsInto ==
  /\ AtDeclChild
  /\ node[DeclChild].type \in {"rule", "atrule"}
  /\ declIter' = Push(declIter, DeclChild)
  /\ UNCHANGED << pc, ruleIter, rule, ruleDeclarations, fallbackRuleDeclarations >>
  /\ UnchangedTree /\ UnchangedGate
  /\ single' = single

\* the children of a container inside the rule are exhausted
WalkDeclsReturn ==
  /\ pc = "decls"
  /\ Len(declIter) > 1
  /\ DeclFrame[2] >= Len(nodes[DeclFrame[1]])
  /\ declIter' = Return(declIter)
  /\ UNCHANGED << pc, ruleIter, rule, ruleDeclarations, fallbackRuleDeclarations >>
  /\ UnchangedTree /\ UnchangedGate
  /\ single' = single

\* walkDecls is over: both Maps are cleared, the callback returns and
\* walkRules walks the children of the rule
EndResolve ==
  /\ pc = "decls"
  /\ Len(declIter) = 1
  /\ DeclFrame[2] >= Len(nodes[DeclFrame[1]])
  /\ ruleDeclarations' = EmptyMap
  /\ fallbackRuleDeclarations' = EmptyMap
  /\ declIter' = <<>>
  /\ rule' = Absent
  /\ ruleIter' = Push(ruleIter, rule)
  /\ pc' = "rules"
  /\ single' = [single EXCEPT !.candidates = EmptyMap]
  /\ UnchangedTree /\ UnchangedGate

\* if (!declaration || !declaration.prop || !declaration.value) return
SkipInvalidDeclaration ==
  /\ AtDeclChild
  /\ node[DeclChild].type = "decl"
  /\ InvalidDeclaration(DeclChild)
  /\ declIter' = Advance(declIter)
  /\ UNCHANGED << pc, ruleIter, rule, ruleDeclarations, fallbackRuleDeclarations >>
  /\ UnchangedTree /\ UnchangedGate
  /\ single' = single

\* the later declaration always winning, !important or not
VictimLastWins(m, d) ==
  LET key == DedupKey(d) IN
  IF ~MapHas(m, key) THEN Absent ELSE m[key].declaration

\* the vendor-prefixed branch never finding an earlier declaration
VictimStandardOnly(m, d) ==
  LET key == DedupKey(d) IN
  IF ~MapHas(m, key) \/ isValidFallbackValue(key) THEN Absent
  ELSE IF m[key].important
       THEN IF node[d].important THEN m[key].declaration ELSE d
       ELSE m[key].declaration

\* The node the callback removes for declaration d, given the Map its key
\* belongs to: the previous candidate, d itself (currentRemoved), or none.
Victim(m, d) ==
  LET key == DedupKey(d) IN
  IF ~MapHas(m, key) THEN Absent
  ELSE IF m[key].important
       THEN IF node[d].important THEN m[key].declaration ELSE d
       ELSE m[key].declaration

\* the Map entry the callback stores for declaration d
Entry(d) ==
  [value |-> Trim(node[d].value),
   important |-> node[d].important,
   declaration |-> d]

\* the Map written even when the current declaration was removed
MapAfterAlways(m, d) == MapSet(m, DedupKey(d), Entry(d))

\* the Map after the callback: untouched when the current declaration was
\* removed, else the current declaration is stored under its key
MapAfter(m, d) ==
  IF Victim(m, d) = d THEN m ELSE MapSet(m, DedupKey(d), Entry(d))

\* the walkDecls callback on a valid declaration d that works on Map m
TreeAfterDecl(m, d) ==
  LET v == Victim(m, d) IN
  IF v = Absent
  THEN /\ nodes' = nodes
       /\ parent' = parent
       /\ declIter' = Advance(declIter)
       /\ ruleIter' = ruleIter
  ELSE /\ nodes' = NodesAfterRemove(v)
       /\ parent' = ParentAfterRemove(v)
       /\ declIter' = Advance(IterAfterRemove(declIter, v))
       /\ ruleIter' = IterAfterRemove(ruleIter, v)

\* The resolver of the specification (4.3), run next to the code on the same
\* declarations: one mapping from property name to the candidate seen last,
\* and the declarations it has removed so far.
SingleStep(st, d) ==
  LET key  == node[d].prop
      cand == [important |-> node[d].important, handle |-> d]
  IN IF key \notin DOMAIN st.candidates
     THEN [st EXCEPT !.candidates = MapSet(@, key, cand)]
     ELSE LET prev == st.candidates[key]
          IN IF prev.important /\ ~node[d].important
             THEN [st EXCEPT !.detached = @ \cup {d}]
             ELSE [candidates |-> MapSet(st.candidates, key, cand),
                   detached   |-> st.detached \cup {prev.handle}]

\* a vendor-prefixed property: fallbackRuleDeclarations
ResolveFallback ==
  /\ AtDeclChild
  /\ node[DeclChild].type = "decl"
  /\ ~InvalidDeclaration(DeclChild)
  /\ isValidFallbackValue(DedupKey(DeclChild))
  /\ TreeAfterDecl(fallbackRuleDeclarations, DeclChild)
  /\ fallbackRuleDeclarations' = MapAfter(fallbackRuleDeclarations, DeclChild)
  /\ single' = SingleStep(single, DeclChild)
  /\ UNCHANGED << node, input, options, run, pc, rule, ruleDeclarations >>
  /\ UnchangedGate

\* a standard property: ruleDeclarations
ResolveStandard ==
  /\ AtDeclChild
  /\ node[DeclChild].type = "decl"
  /\ ~InvalidDeclaration(DeclChild)
  /\ ~isValidFallbackValue(DedupKey(DeclChild))
  /\ TreeAfterDecl(ruleDeclarations, DeclChild)
  /\ ruleDeclarations' = MapAfter(ruleDeclarations, DeclChild)
  /\ single' = SingleStep(single, DeclChild)
  /\ UNCHANGED << node, input, options, run, pc, rule, fallbackRuleDeclarations >>
  /\ UnchangedGate

\* root.walkRules cannot be called: the outer catch logs the error and
\* throws it again
WalkRulesError == "TypeError"

\* the outer catch not throwing again
CriticalErrorSwallowed ==
  /\ pc = "rules"
  /\ root = Null
  /\ pc' = "done"
  /\ raised' = "none"
  /\ UNCHANGED << root, lastIndex, visits, single, ruleIter >>
  /\ UnchangedTree /\ UnchangedPass

CriticalError ==
  /\ pc = "rules"
  /\ root = Null
  /\ pc' = "error"
  /\ raised' = WalkRulesError
  /\ UNCHANGED << root, lastIndex, visits, single, ruleIter >>
  /\ UnchangedTree /\ UnchangedPass

\* -------------------------------- docs/scripts/init.js, the earlier variant
\* isValidFallbackValue(value): a vendor prefix anywhere in the value
isValidFallbackValueHistorical(value) ==
  \/ Contains(value, <<"-", "w", "e", "b", "k", "i", "t", "-">>)
  \/ Contains(value, <<"-", "m", "o", "z", "-">>)
  \/ Contains(value, <<"-", "m", "s", "-">>)
  \/ Contains(value, <<"-", "o", "-">>)

\* const value = declaration.value.trim()
HistoricalValue(d) == Trim(node[d].value)

\* the fallback key made of the property name alone
HistoricalKeyByName(d) == node[d].prop

\* the Map key: `${key}:${value}` in fallbackRuleDeclarations, key in
\* ruleDeclarations
HistoricalKey(d) ==
  IF isValidFallbackValueHistorical(HistoricalValue(d))
  THEN node[d].prop \o <<":">> \o HistoricalValue(d)
  ELSE node[d].prop

\* the node the callback removes: the stored entry's declaration (its remove
\* closure), the current declaration, or none
HistoricalVictim(m, d) ==
  LET key == HistoricalKey(d) IN
  IF ~MapHas(m, key) THEN Absent
  ELSE IF m[key].important
       THEN IF node[d].important THEN m[key].declaration ELSE d
       ELSE m[key].declaration

\* the remove closure deletes the entry, the callback then stores the current
\* declaration under the same key, unless it has removed the current one
HistoricalMapAfter(m, d) ==
  IF HistoricalVictim(m, d) = d THEN m
  ELSE MapSet(m, HistoricalKey(d), Entry(d))

HistoricalTreeAfterDecl(m, d) ==
  LET v == HistoricalVictim(m, d) IN
  IF v = Absent
  THEN /\ nodes' = nodes
       /\ parent' = parent
       /\ declIter' = Advance(declIter)
       /\ ruleIter' = ruleIter
  ELSE /\ nodes' = NodesAfterRemove(v)
       /\ parent' = ParentAfterRemove(v)
       /\ declIter' = Advance(IterAfterRemove(declIter, v))
       /\ ruleIter' = IterAfterRemove(ruleIter, v)

\* a value that holds a vendor prefix: fallbackRuleDeclarations
HistoricalResolveFallback ==
  /\ AtDeclChild
  /\ node[DeclChild].type = "decl"
  /\ isValidFallbackValueHistorical(HistoricalValue(DeclChild))
  /\ HistoricalTreeAfterDecl(fallbackRuleDeclarations, DeclChild)
  /\ fallbackRuleDeclarations' =
       HistoricalMapAfter(fallbackRuleDeclarations, DeclChild)
  /\ UNCHANGED << node, input, options, run, pc, rule, ruleDeclarations >>
  /\ UnchangedGate
  /\ single' = single

\* any other value: ruleDeclarations
HistoricalResolveStandard ==
  /\ AtDeclChild
  /\ node[DeclChild].type = "decl"
  /\ ~isValidFallbackValueHistorical(HistoricalValue(DeclChild))
  /\ HistoricalTreeAfterDecl(ruleDeclarations, DeclChild)
  /\ ruleDeclarations' = HistoricalMapAfter(ruleDeclarations, DeclChild)
  /\ UNCHANGED << node, input, options, run, pc, rule, fallbackRuleDeclarations >>
  /\ UnchangedGate
  /\ single' = single

\* prepare({ root }): the same walk, selector gate and empty-rule branch, with
\* the earlier walkDecls callback
Prepare ==
  \/ WalkRulesLeaf
  \/ WalkRulesAtRule
  \/ WalkRulesReturn
  \/ SkipRule
  \/ RemoveEmptyRule
  \/ KeepEmptyRule
  \/ BeginResolve
  \/ WalkDeclsLeaf
  \/ WalkDeclsInto
  \/ WalkDeclsReturn
  \/ EndResolve
  \/ HistoricalResolveFallback
  \/ HistoricalResolveStandard

\* ---------------------------------------------------------- specification
Once ==
  \/ WalkRulesLeaf
  \/ WalkRulesAtRule
  \/ WalkRulesReturn
  \/ SkipRule
  \/ RuleFault
  \/ CriticalError
  \/ RemoveEmptyRule
  \/ KeepEmptyRule
  \/ BeginResolve
  \/ WalkDeclsLeaf
  \/ WalkDeclsInto
  \/ WalkDeclsReturn
  \/ EndResolve
  \/ SkipInvalidDeclaration
  \/ ResolveFallback
  \/ ResolveStandard

\* the transform is run once more on the tree it has produced
RunAgain ==
  /\ pc = "done"
  /\ run < MaxRuns
  /\ run' = run + 1
  /\ pc' = "rules"
  /\ ruleIter' = Push(<<>>, Root)
  /\ UNCHANGED << node, input, nodes, parent, options >>
  /\ UnchangedPass /\ UnchangedGate
  /\ single' = single

\* ------------------------------------------------------------ input trees
\* The nodes of an input tree are numbered 1..n in document order.
RECURSIVE AncestorsOrSelf(_, _)
AncestorsOrSelf(par, i) ==
  IF i = Root THEN {Root} ELSE {i} \cup AncestorsOrSelf(par, par[i])

\* par is the parent function of a tree whose document order is 1..n
TreeShape(n, par) ==
  /\ \A i \in 1..n : par[i] < i
  /\ \A i \in 2..n : par[i] \in AncestorsOrSelf(par, i - 1)

\* and only rules and at-rules have children
WellFormedTree(n, kind, par) ==
  /\ TreeShape(n, par)
  /\ \A i \in 1..n : par[i] # Root => kind[par[i]] \in {"rule", "atrule"}

RECURSIVE ChildrenFrom(_, _, _, _)
ChildrenFrom(n, par, c, i) ==
  IF i > n THEN <<>>
  ELSE IF par[i] = c THEN <<i>> \o ChildrenFrom(n, par, c, i + 1)
  ELSE ChildrenFrom(n, par, c, i + 1)

\* the fields of a node; a field a node type does not have is empty
NodeRec(kind, sel, decl) ==
  [type |-> kind, selector |-> sel,
   prop |-> decl.prop, value |-> decl.value, important |-> decl.important]

NoDecl == [prop |-> <<>>, value |-> <<>>, important |-> FALSE]

\* Every tree of at most max nodes of the given kinds whose declarations are
\* drawn from decls and whose rule selectors are drawn from selectors; kinds
\* of node other than those of topKinds occur only inside a rule or an
\* at-rule.
InitTree(max, kinds, decls, selectors, topKinds) ==
  \E n \in 1..max :
    \E par \in {p \in [1..n -> 0..(n - 1)] : TreeShape(n, p)} :
      \E kind \in [1..n -> kinds] :
        /\ WellFormedTree(n, kind, par)
        /\ \A i \in 1..n : par[i] = Root => kind[i] \in topKinds
        /\ \E sel \in [{i \in 1..n : kind[i] = "rule"} -> selectors] :
           \E decl \in [{i \in 1..n : kind[i] = "decl"} -> decls] :
             /\ node = [i \in 1..n |->
                   NodeRec(kind[i],
                           IF kind[i] = "rule" THEN sel[i] ELSE <<>>,
                           IF kind[i] = "decl" THEN decl[i] ELSE NoDecl)]
             /\ input = [c \in 0..n |-> ChildrenFrom(n, par, c, 1)]
             /\ nodes = [c \in 0..n |-> ChildrenFrom(n, par, c, 1)]
             /\ parent = par

\* the state of Once before its first step, whatever the tree
InitWalk ==
  /\ run = 1
  /\ pc = "rules"
  /\ declIter = <<>>
  /\ rule = Absent
  /\ ruleDeclarations = EmptyMap
  /\ fallbackRuleDeclarations = EmptyMap
  /\ lastIndex = 0
  /\ raised = "none"
  /\ visits = [x \in DOMAIN node |-> <<>>]
  /\ single = [candidates |-> EmptyMap, detached |-> {}]

InitOver(max, kinds, decls, selectors, topKinds, selOptions) ==
  /\ InitTree(max, kinds, decls, selectors, topKinds)
  /\ \E s \in selOptions, pe \in BOOLEAN :
       options = [selector |-> s, preserveEmpty |-> pe]
  /\ root = Root
  /\ ruleIter = Push(<<>>, Root)
  /\ InitWalk

\* Once called with no tree
InitNoTree ==
  /\ node = <<>> /\ input = <<>> /\ nodes = <<>> /\ parent = <<>>
  /\ \E pe \in BOOLEAN : options = [selector |-> NoSelector, preserveEmpty |-> pe]
  /\ root = Null
  /\ ruleIter = <<>>
  /\ InitWalk

\* declarations as the parser hands them over: a value may be empty
\* (`c: ;`); the important flag of such a declaration is never read
Declarations ==
  {d \in [prop : PropNames, value : Values, important : BOOLEAN] :
     d.value = <<>> => ~d.important}

PlainDeclarations ==
  {d \in [prop : {<<"c">>}, value : {<<"r">>}, important : BOOLEAN] : TRUE}

\* the kinds of node that occur directly under the root of an input tree
TopLevelKinds == {"rule", "comment", "atrule"}

\* a declaration without a property name next to well-formed ones
NamelessDeclarations ==
  {d \in [prop : {<<>>, <<"c">>}, value : {<<"r">>}, important : BOOLEAN] :
     d.prop = <<>> => ~d.important}

\* the selector options of every kind the gate tells apart
GateOptions ==
  { StringSel(<<"x">>), StringSel(<<>>),
    RegExpSel(<<"x">>, FALSE, FALSE), RegExpSel(<<"x">>, TRUE, FALSE),
    RegExpSel(<<".">>, FALSE, TRUE),
    FunctionSel({<<".", "x">>}, {}), FunctionSel({<<".", "x">>}, {<<".", "y">>}),
    NumberSel }

\* trees of at most max nodes: no selector option, or the selector option
\* ".x" over rules .x and .y (and no comments)
InitTrees(max) ==
  \/ InitOver(max, Kinds, Declarations, {<<".", "x">>}, TopLevelKinds,
              {NoSelector})
  \/ InitOver(max, Kinds \ {"comment"}, PlainDeclarations, Selectors,
              TopLevelKinds, {StringSel(<<".", "x">>)})

\* trees of rules and declarations, top-level declarations included, some
\* without a property name
InitNameless(max) ==
  InitOver(max, {"rule", "decl"}, NamelessDeclarations, {<<".", "x">>},
           {"rule", "decl"}, {NoSelector})

\* trees of rules and declarations under every kind of selector option
InitGates(max, selOptions) ==
  InitOver(max, {"rule", "decl"}, PlainDeclarations, Selectors, {"rule"},
           selOptions)

Init ==
  \/ InitTrees(MaxNodes)
  \/ InitNameless(MaxNodes - 1)
  \/ InitGates(MaxNodes - 1, {FunctionSel({<<".", "x">>}, {<<".", "y">>})})
  \/ InitNoTree

InitGate ==
  \/ InitGates(MaxNodes, GateOptions)
  \/ InitTrees(MaxNodes - 1)
  \/ InitNoTree

Next == Once

\* one run of the transform
Spec == Init /\ [][Next]_vars

\* the transform run again on its own output
NextAgain == Once \/ RunAgain
SpecAgain == Init /\ [][NextAgain]_vars

\* one run of the transform under every kind of selector option
SpecGate == InitGate /\ [][Next]_vars

\* a standard, a custom and a vendor-prefixed property, each with a plain
\* value or a value that holds a vendor-prefixed token
TokenDeclarations ==
  [prop : {<<"c">>, <<"-", "-", "c">>, <<"-", "o", "-", "c">>,
           <<"-", "m", "s", "-", "c">>, <<"-", "m", "o", "z", "-", "c">>,
           <<"-", "w", "e", "b", "k", "i", "t", "-", "c">>},
   value : {<<"r">>, <<"-", "o", "-", "b">>},
   important : {FALSE}]

\* long rules and deep nestings of rules .x with declarations of c; short
\* rules with custom properties and vendor tokens in values
InitPass ==
  \/ InitOver(MaxNodes + 1, {"rule", "decl"}, PlainDeclarations,
              {<<".", "x">>}, {"rule"}, {NoSelector})
  \/ InitOver(MaxNodes - 1, {"rule", "decl"}, TokenDeclarations,
              {<<".", "x">>}, {"rule"}, {NoSelector})
  \/ InitTrees(MaxNodes - 1)
  \/ InitGates(MaxNodes - 1, {FunctionSel({<<".", "x">>}, {<<".", "y">>})})
  \/ InitNoTree

\* one run of the transform, seen pass by pass
SpecPass == InitPass /\ [][Next]_vars

\* the same run with the walker never left waiting: Once is synchronous
SpecPassFair == InitPass /\ [][Next]_vars /\ WF_vars(Next)

\* a standard and a vendor-prefixed property with plain values and values
\* that hold a vendor-prefixed token
HistoricalDeclarations ==
  {d \in [prop : {<<"c">>, <<"-", "o", "-", "c">>},
          value : {<<"r">>, <<"s">>, <<"-", "o", "-", "b">>, <<"-", "o", "-", "d">>},
          important : BOOLEAN] :
     d.important => d.value \in {<<"r">>, <<"-", "o", "-", "b">>}}

InitHistorical ==
  \/ InitOver(MaxNodes, {"rule", "decl"}, HistoricalDeclarations,
              {<<".", "x">>}, {"rule"}, {NoSelector})
  \/ InitTrees(MaxNodes - 1)

NextHistorical == Prepare

\* one run of the earlier variant
SpecHistorical == InitHistorical /\ [][NextHistorical]_vars

\* ------------------------------------------------------------ vocabulary
Nodes == DOMAIN node
Rules == {x \in Nodes : node[x].type = "rule"}
Decls == {x \in Nodes : node[x].type = "decl"}

Range(seq) == {seq[k] : k \in 1..Len(seq)}

\* the container a node was parsed into
InputParent(x) == CHOOSE c \in DOMAIN input : x \in Range(input[c])

\* the node is still reachable from the root
RECURSIVE InTree(_)
InTree(x) ==
  \/ x = Root
  \/ x # Absent /\ parent[x] # Absent /\ InTree(parent[x])

\* the rules a node was parsed inside of, the node itself included
RECURSIVE EnclosingRules(_)
EnclosingRules(x) ==
  IF x = Root THEN {}
  ELSE (IF x \in Rules THEN {x} ELSE {}) \cup EnclosingRules(InputParent(x))

RECURSIVE IsSubsequence(_, _)
IsSubsequence(a, b) ==
  IF a = <<>> THEN TRUE
  ELSE IF b = <<>> THEN FALSE
  ELSE IF Head(a) = Head(b) THEN IsSubsequence(Tail(a), Tail(b))
  ELSE IsSubsequence(a, Tail(b))

\* the members of a child sequence that satisfy Keep, in order
RECURSIVE Only(_, _)
Only(seq, keep) ==
  IF seq = <<>> THEN <<>>
  ELSE IF Head(seq) \in keep THEN <<Head(seq)>> \o Only(Tail(seq), keep)
  ELSE Only(Tail(seq), keep)

Last(seq) == seq[Len(seq)]

\* the well-formed declarations for property p among the children of r,
\* as parsed and now
InputCandidates(r, p) ==
  Only(input[r], {d \in Decls : node[d].prop = p /\ ~InvalidDeclaration(d)})
Survivors(r, p) ==
  Only(nodes[r], {d \in Decls : node[d].prop = p /\ ~InvalidDeclaration(d)})

InputProps(r) == {node[d].prop : d \in Range(input[r]) \cap Decls}

Done == pc = "done"

\* ------------------------------------------------------------------ claims
\* C1 (single survivor): when the transform is over, every eligible rule has,
\* for every property name among the declarations it was parsed with, exactly
\* one resolved (well-formed) declaration with that name among its children,
\* or none only if every declaration of that name was malformed.
C1_SingleSurvivor ==
  Done =>
    \A r \in Rules : Eligible(r) =>
      \A p \in InputProps(r) :
        \/ Len(Survivors(r, p)) = 1
        \/ Len(Survivors(r, p)) = 0 /\ InputCandidates(r, p) = <<>>

\* C2 (importance dominance): when the transform is over, in every eligible
\* rule, a property with an !important declaration among the rule's parsed
\* declarations is left with exactly the last of its !important declarations.
ImportantCandidates(r, p) ==
  Only(InputCandidates(r, p), {d \in Decls : node[d].important})

C2_ImportanceDominance ==
  Done =>
    \A r \in Rules : Eligible(r) =>
      \A p \in InputProps(r) :
        ImportantCandidates(r, p) # <<>> =>
          Survivors(r, p) = << Last(ImportantCandidates(r, p)) >>

\* C3 (last wins): when the transform is over, in every eligible rule, a
\* property none of whose parsed declarations is !important is left with
\* exactly the last of its declarations; every earlier one is removed.
C3_LastWins ==
  Done =>
    \A r \in Rules : Eligible(r) =>
      \A p \in InputProps(r) :
        (InputCandidates(r, p) # <<>> /\ ImportantCandidates(r, p) = <<>>) =>
          Survivors(r, p) = << Last(InputCandidates(r, p)) >>

\* C4 (order preservation): when the transform is over, the child sequence of
\* every rule still in the tree is a subsequence of the child sequence it was
\* parsed with: nothing is inserted, nothing is reordered.
C4_OrderPreservation ==
  Done => \A r \in Rules : InTree(r) => IsSubsequence(nodes[r], input[r])

\* a rule that lost a declaration and kept two others
C4_Witness ==
  /\ Done
  /\ \E r \in Rules :
       /\ InTree(r)
       /\ Len(nodes[r]) >= 2
       /\ Len(nodes[r]) < Len(input[r])
       /\ Range(nodes[r]) \subseteq Decls

\* C5 (filter exactness): with a selector option, when the transform is over
\* every rule whose selector does not match has the declarations it was
\* parsed with, in the same order, and has not been removed.
C5_FilterExactness ==
  (Done /\ Truthy(options.selector)) =>
    \A r \in Rules : ~Eligible(r) =>
      /\ Only(nodes[r], Decls) = Only(input[r], Decls)
      /\ parent[r] = InputParent(r)

\* C6 (idempotence): a second run of the transform on the tree the first run
\* produced removes no declaration and no rule.
C6_Idempotence == [][run > 1 => nodes' = nodes]_vars

C8_PreserveKeepsRules ==
  options.preserveEmpty = TRUE =>
    \A c \in DOMAIN nodes : Only(nodes[c], Rules) = Only(input[c], Rules)

\* the transform is over and an eligible rule with only a comment is in place
C8_Witness ==
  /\ Done
  /\ options.preserveEmpty = TRUE
  /\ \E r \in Rules :
       /\ Eligible(r)
       /\ InTree(r)
       /\ nodes[r] # <<>>
       /\ isEmpty(r)

\* C9: with preserveEmpty false and no selector option, when the transform is
\* over no rule still in the tree is empty.
C9_NoEmptyRuleRemains ==
  (Done /\ MustRemoveEmpty /\ ~Truthy(options.selector)) =>
    \A r \in Rules : InTree(r) => ~isEmpty(r)

C11_TwoMapsAsOne ==
  /\ {d \in Decls : parent[d] = Absent} = single.detached
  /\ DOMAIN single.candidates =
       (DOMAIN ruleDeclarations) \cup (DOMAIN fallbackRuleDeclarations)
  /\ \A k \in DOMAIN single.candidates :
       LET m == IF isValidFallbackValue(k)
                THEN fallbackRuleDeclarations ELSE ruleDeclarations
       IN /\ MapHas(m, k)
          /\ m[k].declaration = single.candidates[k].handle
          /\ m[k].important = single.candidates[k].important

\* a vendor-prefixed !important declaration has survived a later plain
\* declaration of the same prefixed name, which both resolvers removed
C11_Witness ==
  /\ Done
  /\ \E d, e \in Decls :
       /\ d < e
       /\ InputParent(d) = InputParent(e)
       /\ node[d].prop = node[e].prop
       /\ isValidFallbackValue(node[d].prop)
       /\ node[d].important /\ ~node[e].important
       /\ parent[d] # Absent
       /\ parent[e] = Absent
       /\ e \in single.detached

\* the outcomes of a callback that went past the selector gate
Processed == {"removed", "kept", "resolved"}

\* the selector option lets the selector text of rule r through
C12_Matches(r) ==
  LET sel == options.selector
      text == node[r].selector
  IN \/ sel.type = "undefined"
     \/ sel.type = "string" /\ sel.text = <<>>
     \/ sel.type = "string" /\ Contains(text, sel.text)
     \/ sel.type = "regexp" /\ RegExpTest(sel, lastIndex, text).result
     \/ sel.type = "function" /\ text \in sel.accepts /\ text \notin sel.throws

\* C12 (selector matching): whenever the callback is called on a rule, the
\* rule goes past the selector gate iff the selector option is absent or
\* empty, or is a string contained in the rule's selector text, or is a
\* regular expression whose test on the selector text is true, or is a
\* predicate that returns true for the selector text.
C12_SelectorMatching ==
  [][\A r \in Rules :
       visits'[r] # visits[r] =>
         (Last(visits'[r]) \in Processed <=> C12_Matches(r))]_vars

\* under the string option "x" the rule .x was resolved and the rule .y was
\* skipped
C12_Witness ==
  /\ Done
  /\ options.selector = StringSel(<<"x">>)
  /\ \E r, q \in Rules :
       /\ node[r].selector = <<".", "x">> /\ visits[r] = <<"resolved">>
       /\ node[q].selector = <<".", "y">> /\ visits[q] = <<"skipped">>

\* C13 (unsupported selector type): with a selector option that is neither a
\* string, a regular expression nor a function, the transform does not raise
\* and no rule is turned away at the selector gate: every rule the callback
\* is called on is resolved or pruned as with no selector option.
C13_UnsupportedTypeIsNoFilter ==
  options.selector.type = "number" =>
    /\ raised = "none"
    /\ \A r \in Rules : Range(visits[r]) \subseteq Processed

\* C14 (every rule is visited): when the transform is over, the callback has
\* been called exactly once on every rule of the parsed tree, rules nested in
\* at-rules included, and the rule went past the selector gate iff its own
\* selector text matches the selector option.
C14_EveryRuleVisited ==
  Done =>
    \A r \in Rules :
      /\ Len(visits[r]) = 1
      /\ (visits[r][1] \in Processed) <=> Eligible(r)

\* under the option ".x" a rule .x nested in an at-rule was resolved and lost
\* a declaration
C14_Witness ==
  /\ Done
  /\ Truthy(options.selector)
  /\ \E r \in Rules :
       /\ InputParent(r) # Root
       /\ node[InputParent(r)].type = "atrule"
       /\ visits[r] = <<"resolved">>
       /\ \E d \in Range(input[r]) : parent[d] = Absent

\* the declarations the resolver removes from a sequence of declarations taken
\* alone, in order
RECURSIVE ResolvedAlone(_, _)
ResolvedAlone(seq, st) ==
  IF seq = <<>> THEN st.detached
  ELSE ResolvedAlone(Tail(seq), SingleStep(st, Head(seq)))

\* what the children rule r was parsed with determine on their own: the
\* declarations of r that are removed, and whether r has nothing to keep
OwnDetached(r) ==
  ResolvedAlone(Only(input[r], {d \in Decls : ~InvalidDeclaration(d)}),
                [candidates |-> EmptyMap, detached |-> {}])
OwnEmpty(r) == \A x \in Range(input[r]) : node[x].type = "comment"

\* C15 (rule independence): when the transform is over, which declarations of
\* a rule have been removed, and whether the rule has been removed, are what
\* the rule's own children and the configuration determine: an eligible rule
\* has lost exactly the declarations the resolver removes from its own
\* children and is removed iff it had nothing but comments and preserveEmpty
\* is off; a rule that is not eligible has lost nothing.
C15_RuleIndependence ==
  Done =>
    \A r \in Rules :
      LET lost == {d \in Range(input[r]) \cap Decls : parent[d] = Absent}
      IN IF Eligible(r)
         THEN /\ lost = OwnDetached(r)
              /\ parent[r] = Absent <=> (OwnEmpty(r) /\ MustRemoveEmpty)
         ELSE /\ lost = {}
              /\ parent[r] # Absent

\* C16 (resolution never empties a rule): at every step, every rule parsed
\* with at least one declaration among its children still has at least one
\* declaration among its children and has not been removed.
C16_NeverEmptiesRule ==
  \A r \in Rules :
    Only(input[r], Decls) # <<>> =>
      /\ Only(nodes[r], Decls) # <<>>
      /\ parent[r] # Absent

\* the rules whose callback ran the resolver or the pruner
ProcessedRules == {r \in Rules : Range(visits[r]) \cap Processed # {}}

\* rule r has only declarations and comments as children and lies inside no
\* rule whose callback went past the gate
OnItsOwn(r) ==
  /\ \A x \in Range(input[r]) : node[x].type \in {"decl", "comment"}
  /\ EnclosingRules(r) \cap ProcessedRules \subseteq {r}

\* C17 (per-rule fault isolation): with a selector predicate that throws for
\* some rules, the transform never raises; when it is over the callback has
\* been called exactly once on every rule, the rules the predicate threw for
\* are the only ones recorded as faulted, every other rule went past the gate
\* iff the predicate accepts it, and every accepted rule that is on its own
\* has lost exactly the declarations its own children determine and is removed
\* iff it had nothing but comments and preserveEmpty is off.
C17_FaultIsolation ==
  (options.selector.type = "function" /\ options.selector.throws # {}) =>
    /\ raised = "none"
    /\ pc # "error"
    /\ Done =>
         \A r \in Rules :
           /\ Len(visits[r]) = 1
           /\ visits[r] = <<"fault">> <=>
                node[r].selector \in options.selector.throws
           /\ (visits[r][1] \in Processed) <=>
                /\ node[r].selector \in options.selector.accepts
                /\ node[r].selector \notin options.selector.throws
           /\ (visits[r][1] \in Processed /\ OnItsOwn(r)) =>
                /\ {d \in Range(input[r]) : parent[d] = Absent} = OwnDetached(r)
                /\ parent[r] = Absent <=> (OwnEmpty(r) /\ MustRemoveEmpty)

\* the predicate threw for a rule and a rule met after it was resolved and
\* lost a duplicate declaration
C17_Witness ==
  /\ Done
  /\ \E q, r \in Rules :
       /\ q < r
       /\ visits[q] = <<"fault">>
       /\ visits[r] = <<"resolved">>
       /\ \E d \in Range(input[r]) : parent[d] = Absent

\* C18 (whole-tree fault): with no tree to walk the transform never ends
\* normally; the only outcome it reaches is the error outcome, and that
\* outcome carries the error root.walkRules raised, thrown again to the
\* caller; nothing of the state is touched.
C18_CriticalErrorRaised ==
  root = Null =>
    /\ pc \in {"rules", "error"}
    /\ pc = "error" <=> raised = WalkRulesError
    /\ raised \in {"none", WalkRulesError}
    /\ nodes = input

\* the transform has ended in the error outcome
C18_Witness ==
  /\ root = Null
  /\ pc = "error"
  /\ raised = WalkRulesError

\* a declaration with an empty or missing property name or value
Malformed(d) == node[d].prop = <<>> \/ node[d].value = <<>>

\* the declarations the two Maps hold as candidates
Candidates ==
  {ruleDeclarations[k].declaration : k \in DOMAIN ruleDeclarations}
    \cup {fallbackRuleDeclarations[k].declaration :
            k \in DOMAIN fallbackRuleDeclarations}

\* C19 (malformed declarations are skipped): at every step, no malformed
\* declaration has been detached or is recorded as a candidate, and every
\* detached declaration has lost to a well-formed declaration of its name
\* that is still attached; when the transform is over, every processed rule
\* that is on its own has lost exactly the declarations that its well-formed
\* declarations, taken without the malformed ones, determine.
C19_MalformedSkipped ==
  /\ \A d \in Decls : Malformed(d) =>
       /\ parent[d] = InputParent(d)
       /\ d \notin Candidates
  /\ \A d \in Decls : parent[d] = Absent =>
       \E e \in Decls \ {d} :
         /\ ~Malformed(e)
         /\ node[e].prop = node[d].prop
         /\ parent[e] # Absent
  /\ Done =>
       \A r \in ProcessedRules : OnItsOwn(r) =>
         {d \in Range(input[r]) : parent[d] = Absent /\ d \in Decls} =
           ResolvedAlone(Only(input[r], {d \in Decls : ~Malformed(d)}),
                         [candidates |-> EmptyMap, detached |-> {}])

\* a rule was resolved in which a malformed declaration stands between two
\* well-formed declarations of its name: the first was removed, the malformed
\* one and the last are in place
C19_Witness ==
  /\ Done
  /\ \E r \in Rules : \E e, d, f \in Range(input[r]) \cap Decls :
       /\ e < d /\ d < f
       /\ Malformed(d) /\ ~Malformed(e) /\ ~Malformed(f)
       /\ node[e].prop = node[d].prop /\ node[f].prop = node[d].prop
       /\ parent[e] = Absent
       /\ parent[d] = r /\ parent[f] = r

\* the rule a node belongs to: the nearest rule it was parsed inside of, or
\* Absent for a node that is inside no rule
RECURSIVE Owner(_)
Owner(x) ==
  LET p == InputParent(x)
  IN IF p = Root THEN Absent
     ELSE IF p \in Rules THEN p ELSE Owner(p)

\* C20 (frame): at every step, a detached declaration belongs to an eligible
\* rule, a detached rule is eligible and empty, every comment and every
\* at-rule is where it was parsed, and every container holds a subsequence of
\* the children it was parsed with, so that nothing outside the rules, and no
\* declaration that is inside no rule, is removed or reordered.
C20_Frame ==
  /\ \A d \in Decls : parent[d] = Absent =>
       /\ Owner(d) # Absent
       /\ Eligible(Owner(d))
  /\ \A r \in Rules : parent[r] = Absent => (Eligible(r) /\ isEmpty(r))
  /\ \A x \in Nodes : node[x].type \in {"comment", "atrule"} =>
       parent[x] = InputParent(x)
  /\ \A x \in Nodes : parent[x] \in {InputParent(x), Absent}
  /\ \A c \in DOMAIN nodes : IsSubsequence(nodes[c], input[c])

\* Once has returned or thrown
Finished == pc \in {"done", "error"}

\* C21 (termination, single pass): every run of the transform ends, the
\* callback is never called a second time on a rule, and at the end it has
\* been called on every rule except those detached before the walker reached
\* them.
C21_TerminatesInOnePass ==
  /\ <>Finished
  /\ [](\A r \in Rules : Len(visits[r]) <= 1)
  /\ [](Done => \A r \in Rules : visits[r] = <<>> => parent[r] = Absent)

\* the run is over after the callback was called on a rule nested in a rule
\* and on the rule that follows them
C21_Witness ==
  /\ Done
  /\ \E q, r, t \in Rules :
       /\ InputParent(r) = q
       /\ t > r /\ InputParent(t) = InputParent(q)
       /\ Len(visits[q]) = 1 /\ Len(visits[r]) = 1 /\ Len(visits[t]) = 1

\* neither rule was parsed inside the other
Apart(q, r) ==
  /\ q # r
  /\ q \notin EnclosingRules(r)
  /\ r \notin EnclosingRules(q)

\* C22 (candidate state is local to a rule): outside a rule's pass both Maps
\* are empty, and when the transform is over, of two eligible rules neither
\* of which contains the other and which were both parsed with a well-formed
\* declaration of some property, each has exactly one declaration of that
\* property left among its children.
C22_CandidatesLocal ==
  /\ pc # "decls" =>
       (ruleDeclarations = EmptyMap /\ fallbackRuleDeclarations = EmptyMap)
  /\ Done =>
       \A q, r \in Rules :
         (Apart(q, r) /\ Eligible(q) /\ Eligible(r)) =>
           \A p \in InputProps(q) \cap InputProps(r) :
             (InputCandidates(q, p) # <<>> /\ InputCandidates(r, p) # <<>>) =>
               /\ Len(Survivors(q, p)) = 1
               /\ Len(Survivors(r, p)) = 1

\* the property names with a recorded candidate, and the candidate of a name
Recorded == (DOMAIN ruleDeclarations) \cup (DOMAIN fallbackRuleDeclarations)
Candidate(k) ==
  IF k \in DOMAIN ruleDeclarations
  THEN ruleDeclarations[k] ELSE fallbackRuleDeclarations[k]

\* the declaration the walkDecls callback is about to be called on, if any
Examining(d) ==
  /\ AtDeclChild
  /\ DeclChild = d
  /\ node[d].type = "decl"

\* C23 (an !important candidate stays): in every step inside a rule's pass,
\* a property name whose recorded candidate is !important still has a
\* recorded !important candidate after the step, and if the step examines a
\* well-formed declaration of that name that is not !important, the step
\* detaches that declaration and leaves the candidate as it was.
C23_ImportantCandidateStays ==
  [][(pc = "decls" /\ pc' = "decls") =>
       \A k \in Recorded : Candidate(k).important =>
         /\ k \in Recorded'
         /\ Candidate(k)'.important
         /\ \A d \in Decls :
              (/\ Examining(d)
               /\ ~InvalidDeclaration(d)
               /\ node[d].prop = k
               /\ ~node[d].important) =>
                 /\ parent[d] # Absent
                 /\ parent'[d] = Absent
                 /\ Candidate(k)' = Candidate(k)]_vars

\* inside a pass the candidate for a name is !important and a later plain
\* declaration of that name has been detached
C23_Witness ==
  /\ pc = "decls"
  /\ \E k \in Recorded :
       /\ Candidate(k).important
       /\ parent[Candidate(k).declaration] # Absent
       /\ \E d \in Decls :
            /\ d > Candidate(k).declaration
            /\ node[d].prop = k
            /\ ~node[d].important
            /\ parent[d] = Absent

\* the declarations now attached below node x, x included
RECURSIVE DeclsBelow(_)
DeclsBelow(x) ==
  IF node[x].type = "decl" THEN {x}
  ELSE UNION {DeclsBelow(nodes[x][j]) : j \in 1..Len(nodes[x])}

\* the attached declarations the walk of the current pass has gone past
Passed ==
  UNION {UNION {DeclsBelow(nodes[declIter[f][1]][j]) : j \in 1..declIter[f][2]} :
           f \in 1..Len(declIter)}

\* C24 (candidate-map invariant): at every step of a rule's pass, the
\* recorded candidate of every property name is attached and is the one
\* attached, well-formed declaration of that name the walk has gone past; no
\* detached declaration is a recorded candidate.
C24_CandidateInvariant ==
  /\ \A k \in Recorded :
       /\ parent[Candidate(k).declaration] # Absent
       /\ {d \in Passed : ~Malformed(d) /\ node[d].prop = k}
            = {Candidate(k).declaration}
  /\ \A d \in Decls : parent[d] = Absent => d \notin Candidates
  /\ \A d \in Passed : ~Malformed(d) => node[d].prop \in Recorded

\* inside a pass, the candidate of a name has replaced an earlier declaration
\* of that name and has turned away a later one: both are detached
C24_Witness ==
  /\ pc = "decls"
  /\ \E k \in Recorded :
       /\ \E d \in Decls :
            /\ d < Candidate(k).declaration
            /\ node[d].prop = k
            /\ parent[d] = Absent
       /\ \E d \in Decls :
            /\ d > Candidate(k).declaration
            /\ node[d].prop = k
            /\ parent[d] = Absent

\* walkDecls has run out of declarations: the callback is not called again
WalkOver ==
  /\ pc = "decls"
  /\ Len(declIter) = 1
  /\ DeclFrame[2] >= Len(nodes[DeclFrame[1]])

\* the well-formed declarations now attached below the rule of the pass
Attached == {d \in DeclsBelow(rule) : ~Malformed(d)}

\* C25 (no declaration skipped or examined twice): whenever the walkDecls
\* callback is about to be called on a declaration, the well-formed
\* declarations still attached that precede it in source order are exactly
\* the recorded candidates, so each was examined, the declaration in hand was
\* not, and the order is the source order; and when the walk is over every
\* well-formed declaration still attached below the rule is a recorded
\* candidate, so none was skipped.
C25_ExaminedOnceInOrder ==
  pc = "decls" =>
    /\ \A d \in Decls :
         Examining(d) => {e \in Attached : e < d} = Candidates
    /\ WalkOver => Attached = Candidates

\* the walk of a rule is over in which the previous candidate was detached
\* once and the declaration in hand twice
C25_Witness ==
  /\ WalkOver
  /\ \E a, b, c, e \in Range(input[rule]) \cap Decls :
       /\ a < b /\ b < c /\ c < e
       /\ node[a].important /\ ~node[b].important
       /\ node[c].important /\ ~node[e].important
       /\ parent[a] = Absent /\ parent[b] = Absent /\ parent[e] = Absent
       /\ parent[c] = rule

\* C26 (the walker after a removed rule): when the transform is over, every
\* rule parsed after a removed empty rule in the same container has been
\* handed to the callback once and went past the selector gate iff it is
\* eligible; if it did and is on its own, it has lost exactly the
\* declarations its own children determine and is removed iff it had nothing
\* but comments and preserveEmpty is off.
C26_WalkerAfterRemoval ==
  Done =>
    \A q, r \in Rules :
      (/\ visits[q] = <<"removed">>
       /\ InputParent(r) = InputParent(q)
       /\ r > q) =>
         /\ Len(visits[r]) = 1
         /\ (visits[r][1] \in Processed) <=> Eligible(r)
         /\ (visits[r][1] \in Processed /\ OnItsOwn(r)) =>
              /\ {d \in Range(input[r]) : parent[d] = Absent} = OwnDetached(r)
              /\ parent[r] = Absent <=> (OwnEmpty(r) /\ MustRemoveEmpty)

\* an empty rule was removed and the rule right after it was resolved and
\* lost a duplicate declaration
C26_Witness ==
  /\ Done
  /\ \E q, r \in Rules :
       /\ visits[q] = <<"removed">>
       /\ parent[q] = Absent
       /\ InputParent(r) = InputParent(q)
       /\ r = q + 1
       /\ visits[r] = <<"resolved">>
       /\ \E d \in Range(input[r]) : parent[d] = Absent

\* C27 (the eligibility decision is a function of matcher and selector text):
\* at every step, two rules with the same selector text that have both been
\* handed to the callback have both gone past the selector gate or have both
\* been turned away.
C27_SameTextSameDecision ==
  \A q, r \in Rules :
    (/\ node[q].selector = node[r].selector
     /\ visits[q] # <<>>
     /\ visits[r] # <<>>) =>
       ((visits[q][1] \in Processed) <=> (visits[r][1] \in Processed))

\* the four vendor prefixes, and a name that starts with one of them
VendorPrefixes ==
  { <<"-", "w", "e", "b", "k", "i", "t", "-">>, <<"-", "m", "o", "z", "-">>,
    <<"-", "m", "s", "-">>, <<"-", "o", "-">> }
VendorPrefixed(name) ==
  \E pre \in VendorPrefixes :
    /\ Len(name) >= Len(pre)
    /\ SubSeq(name, 1, Len(pre)) = pre

\* C28 (the classifier looks at the property name only): at every step the
\* Map for vendor-prefixed names holds exactly names that start with -webkit-,
\* -moz-, -ms- or -o-, and the Map for standard names holds no such name (a
\* custom property --c is a standard name); and when the transform is over
\* every processed rule that is on its own has lost exactly the declarations
\* that last-wins by property name determines, whatever the values hold.
C28_ClassifiedByName ==
  /\ \A k \in DOMAIN fallbackRuleDeclarations : VendorPrefixed(k)
  /\ \A k \in DOMAIN ruleDeclarations : ~VendorPrefixed(k)
  /\ \A d \in Candidates : DedupKey(d) = node[d].prop
  /\ Done =>
       \A r \in ProcessedRules : OnItsOwn(r) =>
         \A d \in Range(input[r]) \cap Decls :
           parent[d] = Absent <=> d \in OwnDetached(r)

\* a declaration of c whose value holds a vendor-prefixed token was removed in
\* favour of a later declaration of c with a plain value
C28_Witness ==
  /\ Done
  /\ \E r \in Rules : \E d, e \in Range(input[r]) \cap Decls :
       /\ d < e
       /\ node[d].prop = <<"c">> /\ node[e].prop = <<"c">>
       /\ Contains(node[d].value, <<"-", "o", "-">>)
       /\ ~Contains(node[e].value, <<"-", "o", "-">>)
       /\ parent[d] = Absent
       /\ parent[e] = r

\* the value holds a vendor-prefix token
HasToken(d) == \E pre \in VendorPrefixes : Contains(Trim(node[d].value), pre)

\* two declarations some rule's pass can both meet
SharePass(d, e) == EnclosingRules(d) \cap EnclosingRules(e) # {}

\* another declaration of the same property and value that a pass can meet
\* together with d
Twin(d) ==
  \E e \in Decls \ {d} :
    /\ SharePass(d, e)
    /\ node[e].prop = node[d].prop
    /\ Trim(node[e].value) = Trim(node[d].value)

\* C29 (historical variant, as stated): a declaration of a vendor-prefixed
\* property whose value differs from that of every other declaration of the
\* property is never removed by the earlier variant.
C29_PrefixedNameNeverDeduplicated ==
  \A d \in Decls :
    VendorPrefixed(node[d].prop) /\ ~Twin(d) => parent[d] # Absent

\* C29 (historical variant, amended): a declaration whose value holds a
\* vendor-prefix token and differs from the value of every other declaration
\* of the same property is never removed by the earlier variant, so a property
\* repeated with different such values keeps all of its declarations.
C29_TokenValueNeverDeduplicated ==
  \A d \in Decls : HasToken(d) /\ ~Twin(d) => parent[d] # Absent

\* the earlier variant has resolved a rule that repeats a property with two
\* different values that hold a vendor-prefix token, and both are attached
C29_Witness ==
  /\ Done
  /\ \E r \in Rules : \E d, e \in Range(input[r]) \cap Decls :
       /\ "resolved" \in Range(visits[r])
       /\ d # e
       /\ node[d].prop = node[e].prop
       /\ HasToken(d) /\ HasToken(e)
       /\ Trim(node[d].value) # Trim(node[e].value)
       /\ parent[d] = r /\ parent[e] = r

\* ---------------------------------------------- index.js as one function
\* the walkDecls callback of index.js on declaration d, on the state of a pass:
\* the two Maps and the set of nodes detached so far
CurrentStep(st, d) ==
  IF InvalidDeclaration(d) THEN st
  ELSE LET fallback == isValidFallbackValue(DedupKey(d))
           m == IF fallback THEN st.fallbackRuleDeclarations
                ELSE st.ruleDeclarations
           v == Victim(m, d)
       IN [ruleDeclarations |->
             IF fallback THEN st.ruleDeclarations ELSE MapAfter(m, d),
           fallbackRuleDeclarations |->
             IF fallback THEN MapAfter(m, d) ELSE st.fallbackRuleDeclarations,
           detached |-> IF v = Absent THEN st.detached
                        ELSE st.detached \cup {v}]

\* rule.walkDecls over the declarations d..n still attached below rule r; node
\* ids follow the document order
RECURSIVE CurrentPass(_, _, _, _)
CurrentPass(r, d, n, st) ==
  IF d > n THEN st
  ELSE IF node[d].type = "decl" /\ r \in EnclosingRules(d) /\ d \notin st.detached
       THEN CurrentPass(r, d + 1, n, CurrentStep(st, d))
       ELSE CurrentPass(r, d + 1, n, st)

\* the walkRules callback of index.js on rule r, given the nodes detached so far
CurrentVisit(r, n, detached) ==
  IF ~Eligible(r) THEN detached
  ELSE IF \A x \in Range(input[r]) \ detached : node[x].type = "comment"
       THEN IF MustRemoveEmpty THEN detached \cup {r} ELSE detached
       ELSE CurrentPass(r, r + 1, n,
                        [ruleDeclarations |-> EmptyMap,
                         fallbackRuleDeclarations |-> EmptyMap,
                         detached |-> detached]).detached

\* root.walkRules over the rules r..n
RECURSIVE CurrentWalk(_, _, _)
CurrentWalk(r, n, detached) ==
  IF r > n THEN detached
  ELSE IF node[r].type = "rule"
       THEN CurrentWalk(r + 1, n, CurrentVisit(r, n, detached))
       ELSE CurrentWalk(r + 1, n, detached)

\* the nodes one run of index.js detaches from the tree as parsed
CurrentDetached == CurrentWalk(1, Len(node), {})

\* every declaration of rule r has a property and a value, and no value holds
\* a vendor-prefix token
CleanRule(r) ==
  \A d \in Range(input[r]) \cap Decls :
    node[d].prop # <<>> /\ node[d].value # <<>> /\ ~HasToken(d)

\* C30 (the two variants agree on token-free rules): when the earlier variant
\* is over, every rule whose declarations all have a property and a value with
\* no vendor-prefix token has the children index.js leaves it from the same
\* input, in the same order, and is removed exactly if index.js removes it.
C30_VariantsAgree ==
  Done =>
    \A r \in Rules :
      CleanRule(r) =>
        /\ nodes[r] = Only(input[r], Nodes \ CurrentDetached)
        /\ (parent[r] = Absent) <=> (r \in CurrentDetached)
====
